---- MODULE Spec2Model ----
(***************************************************************************)
(* Model of soccer_team_generator.py: the roster parser get_player_info   *)
(* and the team balancer make_teams.  Strings are sequences of            *)
(* one-character strings, so that strip, split, rfind, slicing, int(),    *)
(* upper() and lower() are computed character by character.               *)
(***************************************************************************)
EXTENDS Integers, Sequences, FiniteSets, TLC

VARIABLES
    pc,             \* position of the running call
    player_input,   \* get_player_info: the text argument
    player_list,    \* get_player_info: the stripped comma-separated entries
    pos,            \* get_player_info: number of entries of player_list consumed by the for loop
    player_str,     \* get_player_info: the loop variable (last entry visited)
    players,        \* the list of player dicts (parser result / balancer argument)
    num_teams,      \* make_teams: the team count argument
    goalkeepers,    \* make_teams: goalkeepers sorted by rating, descending
    field_players,  \* make_teams: field players sorted by rating, descending
    team_info,      \* make_teams: one (emoji, colour) pair per team
    teams,          \* make_teams: the member lists
    team_skills,    \* make_teams: the skill totals
    i               \* make_teams: enumerate() index of the running loop

vars == <<pc, player_input, player_list, pos, player_str, players, num_teams,
          goalkeepers, field_players, team_info, teams, team_skills, i>>

parserVars == <<player_input, player_list, pos, player_str>>
balancerVars == <<num_teams, goalkeepers, field_players, team_info, teams, team_skills, i>>

(***************************************************************************)
(* Bounds of the model.                                                    *)
(***************************************************************************)
MaxTokens == 4      \* a generated input text is a concatenation of at most this many tokens
MaxPlayers == 4     \* length of the player lists handed to make_teams
MaxTeams == 3       \* num_teams ranges over 0..MaxTeams

(***************************************************************************)
(* Characters.                                                             *)
(***************************************************************************)
UpperLetters == <<"A","B","C","D","E","F","G","H","I","J","K","L","M",
                  "N","O","P","Q","R","S","T","U","V","W","X","Y","Z">>
LowerLetters == <<"a","b","c","d","e","f","g","h","i","j","k","l","m",
                  "n","o","p","q","r","s","t","u","v","w","x","y","z">>
Digits == <<"0","1","2","3","4","5","6","7","8","9">>

Range(s) == { s[k] : k \in DOMAIN s }

IndexOf(s, c) == CHOOSE k \in DOMAIN s : s[k] = c

\* str.isspace for the characters of the model
IsSpace(c) == c = " "

IsDigit(c) == c \in Range(Digits)

DigitValue(c) == IndexOf(Digits, c) - 1

\* ord(c)
Ord(c) ==
    IF c \in Range(UpperLetters) THEN 64 + IndexOf(UpperLetters, c)
    ELSE IF c \in Range(LowerLetters) THEN 96 + IndexOf(LowerLetters, c)
    ELSE IF IsDigit(c) THEN 48 + DigitValue(c)
    ELSE IF c = " " THEN 32
    ELSE IF c = "(" THEN 40
    ELSE IF c = ")" THEN 41
    ELSE IF c = "+" THEN 43
    ELSE IF c = "," THEN 44
    ELSE 45  \* "-"

UpperChar(c) == IF c \in Range(LowerLetters) THEN UpperLetters[IndexOf(LowerLetters, c)] ELSE c
LowerChar(c) == IF c \in Range(UpperLetters) THEN LowerLetters[IndexOf(UpperLetters, c)] ELSE c

\* str.upper() / str.lower()
Upper(s) == [k \in DOMAIN s |-> UpperChar(s[k])]
Lower(s) == [k \in DOMAIN s |-> LowerChar(s[k])]

(***************************************************************************)
(* Python string operations used by get_player_info.                       *)
(***************************************************************************)
RECURSIVE LStrip(_)
LStrip(s) == IF s # <<>> /\ IsSpace(Head(s)) THEN LStrip(Tail(s)) ELSE s

RECURSIVE RStrip(_)
RStrip(s) == IF s # <<>> /\ IsSpace(s[Len(s)]) THEN RStrip(SubSeq(s, 1, Len(s) - 1)) ELSE s

\* s.strip()
Strip(s) == RStrip(LStrip(s))

\* c in s
Contains(s, c) == \E k \in DOMAIN s : s[k] = c

\* s.rfind(c): 0-based index of the last occurrence, -1 when absent
RFind(s, c) ==
    IF Contains(s, c)
    THEN (CHOOSE k \in DOMAIN s : s[k] = c /\ \A m \in DOMAIN s : m > k => s[m] # c) - 1
    ELSE -1

\* s[a:b] for 0-based a, b >= 0
Slice(s, a, b) ==
    LET hi == IF b < Len(s) THEN b ELSE Len(s)
    IN  IF a >= hi THEN <<>> ELSE SubSeq(s, a + 1, hi)

\* s.startswith(p)
StartsWith(s, p) == Len(s) >= Len(p) /\ SubSeq(s, 1, Len(p)) = p

\* s.split(','): the pieces between the commas, empty pieces included
RECURSIVE SplitFrom(_, _, _)
SplitFrom(s, k, cur) ==
    IF k > Len(s) THEN <<cur>>
    ELSE IF s[k] = "," THEN <<cur>> \o SplitFrom(s, k + 1, <<>>)
    ELSE SplitFrom(s, k + 1, Append(cur, s[k]))

SplitComma(s) == SplitFrom(s, 1, <<>>)

\* value of a run of decimal digits, left to right
RECURSIVE DigitsValue(_, _)
DigitsValue(s, acc) ==
    IF s = <<>> THEN acc ELSE DigitsValue(Tail(s), 10 * acc + DigitValue(Head(s)))

\* int(s): surrounding whitespace is ignored, one optional sign, then at least
\* one digit and nothing else; anything else raises ValueError (ok = FALSE)
PyInt(s) ==
    LET t == Strip(s)
        signed == t # <<>> /\ Head(t) \in {"-", "+"}
        body == IF signed THEN Tail(t) ELSE t
        good == body # <<>> /\ \A k \in DOMAIN body : IsDigit(body[k])
    IN  IF good
        THEN [ok |-> TRUE,
              val |-> IF signed /\ Head(t) = "-" THEN 0 - DigitsValue(body, 0)
                      ELSE DigitsValue(body, 0)]
        ELSE [ok |-> FALSE, val |-> 0]

(***************************************************************************)
(* get_player_info                                                         *)
(***************************************************************************)
DefaultRating == 3
MinRating == 1
MaxRating == 5

\* max(1, rating): the clamp without its upper bound
ClampLowerOnly(rating) == IF rating > MinRating THEN rating ELSE MinRating
\* min(5, rating): the clamp without its lower bound
ClampUpperOnly(rating) == IF rating < MaxRating THEN rating ELSE MaxRating
Clamp(rating) ==
    LET m == IF rating < MaxRating THEN rating ELSE MaxRating
    IN  IF m > MinRating THEN m ELSE MinRating  \* max(1, min(5, rating))

\* the prefix test without upper()
IsGkNameCaseSensitive(name) ==
    StartsWith(name, <<"G","K","-">>) \/ StartsWith(name, <<"P","O","-">>)
\* name.upper().startswith("GK-") or name.upper().startswith("PO-")
IsGkName(name) ==
    StartsWith(Upper(name), <<"G","K","-">>) \/ StartsWith(Upper(name), <<"P","O","-">>)

\* as RatingAndName, with the name assigned before int() is tried
RatingAndNameKeepPrefix(entry) ==
    LET start_paren == RFind(entry, "(")
        end_paren == RFind(entry, ")")
        parsed == PyInt(Slice(entry, start_paren + 1, end_paren))
    IN  IF Contains(entry, "(") /\ Contains(entry, ")")
        THEN IF parsed.ok
             THEN [rating |-> parsed.val, name |-> Strip(Slice(entry, 0, start_paren))]
             ELSE [rating |-> DefaultRating, name |-> Strip(Slice(entry, 0, start_paren))]
        ELSE [rating |-> DefaultRating, name |-> entry]
\* rating = 3; name = player_str; if '(' in ... try: ... except: ... (before clamping)
RatingAndName(entry) ==
    LET start_paren == RFind(entry, "(")
        end_paren == RFind(entry, ")")
        parsed == PyInt(Slice(entry, start_paren + 1, end_paren))
    IN  IF Contains(entry, "(") /\ Contains(entry, ")")
        THEN IF parsed.ok
             THEN [rating |-> parsed.val, name |-> Strip(Slice(entry, 0, start_paren))]
             ELSE [rating |-> DefaultRating, name |-> entry]
        ELSE [rating |-> DefaultRating, name |-> entry]

\* the dict appended for one non-blank entry
PlayerDict(entry) ==
    LET rn == RatingAndName(entry)
    IN  [name |-> rn.name, rating |-> Clamp(rn.rating), is_gk |-> IsGkName(rn.name)]

(***************************************************************************)
(* Input texts: every concatenation of at most MaxTokens tokens, and the   *)
(* example entries of the documentation.                                   *)
(***************************************************************************)
Tokens ==
    { <<"(">>, <<")">>, <<",">>, <<" ">>, <<"-">>, <<"9">>, <<"0">>, <<"4">>,
      <<"J","o">>, <<"G","K","-">>, <<"p","o","-">> }

RECURSIVE Concat(_)
Concat(ts) == IF ts = <<>> THEN <<>> ELSE Head(ts) \o Concat(Tail(ts))

TokenTexts == { Concat(ts) : ts \in UNION { [1..n -> Tokens] : n \in 0..MaxTokens } }

TextGKBob4 == <<"G","K","-","B","o","b"," ","(","4",")">>
TextPoAnn2 == <<"p","o","-","A","n","n"," ","(","2",")">>
TextBob4 == <<"B","o","b"," ","(","4",")">>
TextWeird == <<"W","e","i","r","d","(","a","b","c",")">>
TextJoe99 == <<"J","o","e"," ","(","9","9",")">>
TextJoeMinus3 == <<"J","o","e"," ","(","-","3",")">>
TextOnlyRating == <<"(","5",")">>
TextRoster ==
    <<"J","o","e"," ","(","5",")",","," ","J","a","n","e"," ","(","3",")",","," ",
      "G","K","-","B","o","b"," ","(","4",")",","," ","F","r","a","n","k"," ","(","2",")">>

ExampleTexts ==
    { TextGKBob4, TextPoAnn2, TextBob4, TextWeird, TextJoe99, TextJoeMinus3,
      TextOnlyRating, TextRoster }

Inputs == TokenTexts \cup ExampleTexts

(***************************************************************************)
(* get_player_info as a state machine: one step per loop iteration.        *)
(***************************************************************************)
NoBalancer ==
    /\ num_teams = 0
    /\ goalkeepers = <<>>
    /\ field_players = <<>>
    /\ team_info = <<>>
    /\ teams = <<>>
    /\ team_skills = <<>>
    /\ i = 0

InitParser ==
    /\ pc = "gpi_start"
    /\ player_input \in Inputs
    /\ player_list = <<>>
    /\ pos = 0
    /\ player_str = <<>>
    /\ players = <<>>
    /\ NoBalancer

\* if not player_input: return players
ReturnEmpty ==
    /\ pc = "gpi_start"
    /\ player_input = <<>>
    /\ pc' = "gpi_done"
    /\ UNCHANGED <<player_input, player_list, pos, player_str, players, balancerVars>>

\* player_list = [p.strip() for p in player_input.split(',')]
SplitInput ==
    /\ pc = "gpi_start"
    /\ player_input # <<>>
    /\ player_list' = [k \in DOMAIN SplitComma(player_input) |-> Strip(SplitComma(player_input)[k])]
    /\ pc' = "gpi_loop"
    /\ UNCHANGED <<player_input, pos, player_str, players, balancerVars>>

\* a loop iteration on a blank entry: continue
SkipBlank ==
    /\ pc = "gpi_loop"
    /\ pos < Len(player_list)
    /\ player_list[pos + 1] = <<>>
    /\ player_str' = player_list[pos + 1]
    /\ pos' = pos + 1
    /\ UNCHANGED <<pc, player_input, player_list, players, balancerVars>>

\* a loop iteration on a non-blank entry: parse it and append its dict
ParseEntry ==
    /\ pc = "gpi_loop"
    /\ pos < Len(player_list)
    /\ player_list[pos + 1] # <<>>
    /\ player_str' = player_list[pos + 1]
    /\ players' = Append(players, PlayerDict(player_list[pos + 1]))
    /\ pos' = pos + 1
    /\ UNCHANGED <<pc, player_input, player_list, balancerVars>>

\* the loop is exhausted: return players
ReturnPlayers ==
    /\ pc = "gpi_loop"
    /\ pos = Len(player_list)
    /\ pc' = "gpi_done"
    /\ UNCHANGED <<player_input, player_list, pos, player_str, players, balancerVars>>

NextParser == ReturnEmpty \/ SplitInput \/ SkipBlank \/ ParseEntry \/ ReturnPlayers

SpecParser == InitParser /\ [][NextParser]_vars

(***************************************************************************)
(* make_teams                                                              *)
(***************************************************************************)
\* the palette; each symbol is written by its name
TEAM_COLORS ==
    << <<"red circle", "Red">>, <<"blue circle", "Blue">>, <<"green circle", "Green">>,
       <<"yellow circle", "Yellow">>, <<"orange circle", "Orange">>,
       <<"purple circle", "Purple">>, <<"black circle", "Black">>,
       <<"white circle", "White">> >>

Reverse(s) == [k \in DOMAIN s |-> s[Len(s) + 1 - k]]

\* random.shuffle(colors): the orders of the palette the model follows
ShuffleOutcomes(colors) == { colors, Reverse(colors) }

\* [colors[i % len(colors)] for i in range(num_teams)]
TeamInfo(colors, n) == [k \in 1..n |-> colors[((k - 1) % Len(colors)) + 1]]

\* [[] for _ in range(num_teams)]
EmptyTeams(n) == [k \in 1..n |-> <<>>]

\* [0] * (num_teams + 1): one total too many
ZeroSkillsOneTooMany(n) == [k \in 1..(n + 1) |-> 0]
\* [0] * num_teams
ZeroSkills(n) == [k \in 1..n |-> 0]

\* insertion behind every element whose rating is at least p's
RECURSIVE InsertDesc(_, _)
InsertDesc(sorted, p) ==
    IF sorted = <<>> THEN <<p>>
    ELSE IF Head(sorted).rating >= p.rating THEN <<Head(sorted)>> \o InsertDesc(Tail(sorted), p)
    ELSE <<p>> \o sorted

RECURSIVE SortDescFrom(_, _)
SortDescFrom(s, sorted) ==
    IF s = <<>> THEN sorted ELSE SortDescFrom(Tail(s), InsertDesc(sorted, Head(s)))

\* the list left in input order
KeepInputOrder(s) == s
\* sorted(s, key=rating)[::-1]: descending, equal ratings in reversed input order
SortDescTiesReversed(s) == SortDescFrom(Reverse(s), <<>>)
\* sorted(s, key=lambda x: x["rating"], reverse=True): descending and stable
SortByRatingDesc(s) == SortDescFrom(s, <<>>)

\* a < b for strings, character by character on ord()
RECURSIVE StrLess(_, _)
StrLess(a, b) ==
    IF b = <<>> THEN FALSE
    ELSE IF a = <<>> THEN TRUE
    ELSE IF Ord(Head(a)) # Ord(Head(b)) THEN Ord(Head(a)) < Ord(Head(b))
    ELSE StrLess(Tail(a), Tail(b))

RECURSIVE InsertByName(_, _)
InsertByName(sorted, p) ==
    IF sorted = <<>> THEN <<p>>
    ELSE IF StrLess(Lower(p.name), Lower(Head(sorted).name)) THEN <<p>> \o sorted
    ELSE <<Head(sorted)>> \o InsertByName(Tail(sorted), p)

RECURSIVE SortByNameFrom(_, _)
SortByNameFrom(s, sorted) ==
    IF s = <<>> THEN sorted ELSE SortByNameFrom(Tail(s), InsertByName(sorted, Head(s)))

\* team.sort(key=lambda x: x["name"].lower()): ascending and stable
SortByName(team) == SortByNameFrom(team, <<>>)

\* team_idx = i % num_teams
TeamIdx(idx, n) == idx % n

\* i % num_teams raises ZeroDivisionError
DivisionByZero(n) == n = 0

\* teams[team_idx] = [p]: the member list replaced
ReplaceMembers(ts, team_idx, p) == [ts EXCEPT ![team_idx + 1] = <<p>>]
\* teams[team_idx].append(p)
AppendMember(ts, team_idx, p) == [ts EXCEPT ![team_idx + 1] = Append(@, p)]

\* team_skills[team_idx] = rating: the total replaced
SetSkill(skills, team_idx, rating) == [skills EXCEPT ![team_idx + 1] = rating]
\* team_skills[team_idx] += rating
AddSkill(skills, team_idx, rating) == [skills EXCEPT ![team_idx + 1] = @ + rating]

IsGk(p) == p.is_gk
IsField(p) == ~p.is_gk

(***************************************************************************)
(* Player lists handed to make_teams: every list of at most MaxPlayers     *)
(* dicts, each the parser's dict for one entry of RosterEntries.           *)
(***************************************************************************)
TextJoe5 == <<"J","o","e"," ","(","5",")">>
TextJane3 == <<"J","a","n","e"," ","(","3",")">>
TextFrank2 == <<"F","r","a","n","k"," ","(","2",")">>
TextPoAnn9 == <<"p","o","-","A","n","n"," ","(","9",")">>
TextJo == <<"j","o">>

RosterEntries == { TextJoe5, TextJane3, TextFrank2, TextJo, TextGKBob4, TextPoAnn9 }

PlayerPool == { PlayerDict(e) : e \in RosterEntries }

PlayerLists == UNION { [1..n -> PlayerPool] : n \in 0..MaxPlayers }

NoParser ==
    /\ player_input = <<>>
    /\ player_list = <<>>
    /\ pos = 0
    /\ player_str = <<>>

InitTeams ==
    /\ pc = "mt_start"
    /\ players \in PlayerLists
    /\ num_teams \in 0..MaxTeams
    /\ goalkeepers = <<>>
    /\ field_players = <<>>
    /\ team_info = <<>>
    /\ teams = <<>>
    /\ team_skills = <<>>
    /\ i = 0
    /\ NoParser

\* lines 77-86: the two sorted groups, the colours, the empty teams and totals
MakeTeamsSetup ==
    /\ pc = "mt_start"
    /\ goalkeepers' = SortByRatingDesc(SelectSeq(players, IsGk))
    /\ field_players' = SortByRatingDesc(SelectSeq(players, IsField))
    /\ \E colors \in ShuffleOutcomes(TEAM_COLORS) : team_info' = TeamInfo(colors, num_teams)
    /\ teams' = EmptyTeams(num_teams)
    /\ team_skills' = ZeroSkills(num_teams)
    /\ i' = 0
    /\ pc' = "mt_gk"
    /\ UNCHANGED <<players, num_teams, parserVars>>

\* lines 89-92: one iteration of the goalkeeper loop
AssignGoalkeeper ==
    /\ pc = "mt_gk"
    /\ i < Len(goalkeepers)
    /\ ~DivisionByZero(num_teams)
    /\ teams' = AppendMember(teams, TeamIdx(i, num_teams), goalkeepers[i + 1])
    /\ team_skills' = AddSkill(team_skills, TeamIdx(i, num_teams), goalkeepers[i + 1].rating)
    /\ i' = i + 1
    /\ UNCHANGED <<pc, players, num_teams, goalkeepers, field_players, team_info, parserVars>>

\* the goalkeeper loop is exhausted; the field-player loop starts
EndGoalkeepers ==
    /\ pc = "mt_gk"
    /\ i = Len(goalkeepers)
    /\ i' = 0
    /\ pc' = "mt_field"
    /\ UNCHANGED <<players, num_teams, goalkeepers, field_players, team_info, teams,
                   team_skills, parserVars>>

\* lines 97-100: one iteration of the field-player loop
AssignFieldPlayer ==
    /\ pc = "mt_field"
    /\ i < Len(field_players)
    /\ ~DivisionByZero(num_teams)
    /\ teams' = AppendMember(teams, TeamIdx(i, num_teams), field_players[i + 1])
    /\ team_skills' = AddSkill(team_skills, TeamIdx(i, num_teams), field_players[i + 1].rating)
    /\ i' = i + 1
    /\ UNCHANGED <<pc, players, num_teams, goalkeepers, field_players, team_info, parserVars>>

\* lines 90 and 98: i % num_teams with num_teams = 0 raises ZeroDivisionError
RaiseZeroDivision ==
    /\ \/ pc = "mt_gk" /\ i < Len(goalkeepers)
       \/ pc = "mt_field" /\ i < Len(field_players)
    /\ DivisionByZero(num_teams)
    /\ pc' = "mt_raised"
    /\ UNCHANGED <<players, balancerVars, parserVars>>

\* lines 103-106: every team sorted by lower-cased name, then the return
SortTeamsAndReturn ==
    /\ pc = "mt_field"
    /\ i = Len(field_players)
    /\ teams' = [t \in DOMAIN teams |-> SortByName(teams[t])]
    /\ pc' = "mt_done"
    /\ UNCHANGED <<players, num_teams, goalkeepers, field_players, team_info, team_skills,
                   i, parserVars>>

NextTeams ==
    \/ MakeTeamsSetup
    \/ AssignGoalkeeper
    \/ EndGoalkeepers
    \/ AssignFieldPlayer
    \/ RaiseZeroDivision
    \/ SortTeamsAndReturn

SpecTeams == InitTeams /\ [][NextTeams]_vars

Init == InitParser \/ InitTeams
Next == NextParser \/ NextTeams
Spec == Init /\ [][Next]_vars

(***************************************************************************)
(* Vocabulary of the parser claims, stated on the entry text itself.       *)
(***************************************************************************)
\* the last loop iteration appended a dict for player_str
EntryParsed == pc \in {"gpi_loop", "gpi_done"} /\ player_str # <<>> /\ players # <<>>

LastPlayer == players[Len(players)]

\* a is the place of the last "(" of e and b the place of the last ")"
LastParens(e, a, b) ==
    /\ e[a] = "(" /\ \A m \in DOMAIN e : m > a => e[m] # "("
    /\ e[b] = ")" /\ \A m \in DOMAIN e : m > b => e[m] # ")"

\* the text strictly between places a and b (empty when b <= a + 1)
Between(e, a, b) == [k \in 1..(b - a - 1) |-> e[a + k]]

\* spaces, an optional sign, one or more digits, spaces
IsIntLiteral(s) ==
    \E l, r \in 0..Len(s) :
        /\ l + r < Len(s)
        /\ \A k \in 1..l : s[k] = " "
        /\ \A k \in (Len(s) - r + 1)..Len(s) : s[k] = " "
        /\ \/ \A k \in (l + 1)..(Len(s) - r) : IsDigit(s[k])
           \/ /\ s[l + 1] \in {"-", "+"}
              /\ l + 1 < Len(s) - r
              /\ \A k \in (l + 2)..(Len(s) - r) : IsDigit(s[k])

RECURSIVE Pow10(_)
Pow10(n) == IF n = 0 THEN 1 ELSE 10 * Pow10(n - 1)

RECURSIVE PlaceSum(_, _)
PlaceSum(ds, k) ==
    IF k > Len(ds) THEN 0
    ELSE DigitValue(ds[k]) * Pow10(Len(ds) - k) + PlaceSum(ds, k + 1)

\* the number an integer literal denotes
LiteralValue(s) ==
    LET magnitude == PlaceSum(SelectSeq(s, IsDigit), 1)
    IN  IF Contains(s, "-") THEN 0 - magnitude ELSE magnitude

\* the entry carries a written rating: an integer literal between its last "(" and last ")"
HasWrittenRating(e) ==
    \E a, b \in DOMAIN e : LastParens(e, a, b) /\ IsIntLiteral(Between(e, a, b))

WrittenRating(e) ==
    LET ab == CHOOSE ab \in (DOMAIN e) \X (DOMAIN e) : LastParens(e, ab[1], ab[2])
    IN  LiteralValue(Between(e, ab[1], ab[2]))

\* the name begins, whatever the case, with GK- or PO-
HasGkPrefix(name) ==
    /\ Len(name) >= 3
    /\ name[3] = "-"
    /\ \/ name[1] \in {"G", "g"} /\ name[2] \in {"K", "k"}
       \/ name[1] \in {"P", "p"} /\ name[2] \in {"O", "o"}

NameGKBob == <<"G","K","-","B","o","b">>
NameJoe == <<"J","o","e">>

(***************************************************************************)
(* Claims about get_player_info (checked under SpecParser).                *)
(***************************************************************************)

\* C5: every record returned by get_player_info has a non-empty name.
\* Stated as claimed; the entry "(5)" refutes it.
C5_NameNeverEmpty == \A k \in DOMAIN players : players[k].name # <<>>

\* C6: every record has 1 <= rating <= 5; a written value above 5 gives 5, a
\* written value below 1 gives 1, a written value within 1..5 is kept, and an
\* absent or unparsable rating gives 3.
C6_RatingClamp ==
    /\ \A k \in DOMAIN players : players[k].rating \in 1..5
    /\ EntryParsed =>
          IF HasWrittenRating(player_str)
          THEN /\ WrittenRating(player_str) > 5 => LastPlayer.rating = 5
               /\ WrittenRating(player_str) < 1 => LastPlayer.rating = 1
               /\ WrittenRating(player_str) \in 1..5 => LastPlayer.rating = WrittenRating(player_str)
          ELSE LastPlayer.rating = 3

\* C6 witness: "Joe (-3)" has been parsed into Joe with rating 1.
C6_Witness ==
    /\ EntryParsed
    /\ player_str = TextJoeMinus3
    /\ HasWrittenRating(player_str) /\ WrittenRating(player_str) = 0 - 3
    /\ LastPlayer = [name |-> NameJoe, rating |-> 1, is_gk |-> FALSE]

\* C7: an entry holding both "(" and ")" whose text between the last "(" and
\* the last ")" is no integer literal yields rating 3 and the whole entry as name.
C7_ParseFallback ==
    (/\ EntryParsed
     /\ Contains(player_str, "(") /\ Contains(player_str, ")")
     /\ ~HasWrittenRating(player_str))
    => (LastPlayer.rating = 3 /\ LastPlayer.name = player_str)

\* C7 witness: "Weird(abc)" has been parsed and kept whole.
C7_Witness ==
    /\ EntryParsed
    /\ player_str = TextWeird
    /\ ~HasWrittenRating(player_str)
    /\ LastPlayer.name = TextWeird /\ LastPlayer.rating = 3

\* C9: is_gk holds exactly when the stored name begins, whatever the case,
\* with GK- or PO-; the prefix stays in the stored name ("GK-Bob (4)" gives
\* name "GK-Bob" with is_gk, "po-Ann (2)" gives is_gk, "Bob (4)" does not).
C9_GoalkeeperDetection ==
    /\ \A k \in DOMAIN players : players[k].is_gk <=> HasGkPrefix(players[k].name)
    /\ (EntryParsed /\ player_str = TextGKBob4) =>
          LastPlayer = [name |-> NameGKBob, rating |-> 4, is_gk |-> TRUE]
    /\ (EntryParsed /\ player_str = TextPoAnn2) =>
          (LastPlayer.is_gk /\ LastPlayer.name = <<"p","o","-","A","n","n">>)
    /\ (EntryParsed /\ player_str = TextBob4) => ~LastPlayer.is_gk

\* C9 witness: "po-Ann (2)" has been parsed into a goalkeeper whose name keeps the prefix.
C9_Witness ==
    /\ EntryParsed
    /\ player_str = TextPoAnn2
    /\ LastPlayer.is_gk
    /\ HasGkPrefix(LastPlayer.name)

(***************************************************************************)
(* Vocabulary of the balancer claims, stated on the argument list.         *)
(***************************************************************************)
Done == pc = "mt_done"

\* the multiset of the elements of a sequence
BagOf(s) == [e \in Range(s) |-> Cardinality({ k \in DOMAIN s : s[k] = e })]

RECURSIVE Flatten(_)
Flatten(ts) == IF ts = <<>> THEN <<>> ELSE Head(ts) \o Flatten(Tail(ts))

RECURSIVE SumSeq(_)
SumSeq(s) == IF s = <<>> THEN 0 ELSE Head(s) + SumSeq(Tail(s))

Ratings(s) == [k \in DOMAIN s |-> s[k].rating]
Names(s) == [k \in DOMAIN s |-> s[k].name]
Sizes(ts) == [k \in DOMAIN ts |-> Len(ts[k])]

\* 0-based place of players[p] in its role group once sorted by rating,
\* descending, equal ratings in input order
Rank(p) ==
    Cardinality({ q \in DOMAIN players :
        /\ players[q].is_gk = players[p].is_gk
        /\ \/ players[q].rating > players[p].rating
           \/ players[q].rating = players[p].rating /\ q < p })

\* the input places whose player belongs in team t (1-based) by round-robin
PlacesOfTeam(t) == { p \in DOMAIN players : Rank(p) % num_teams = t - 1 }

\* the multiset of the players at a set of input places
BagAt(places) ==
    [e \in { players[p] : p \in places } |-> Cardinality({ p \in places : players[p] = e })]

MaxOf(s) == CHOOSE x \in Range(s) : \A y \in Range(s) : y <= x
MinOf(s) == CHOOSE x \in Range(s) : \A y \in Range(s) : x <= y
Spread == MaxOf(team_skills) - MinOf(team_skills)

FieldPlaces == { p \in DOMAIN players : ~players[p].is_gk }
GkPlaces == { p \in DOMAIN players : players[p].is_gk }
RoleGroups == (IF GkPlaces = {} THEN 0 ELSE 1) + (IF FieldPlaces = {} THEN 0 ELSE 1)
FieldRatingsEqual == \A p, q \in FieldPlaces : players[p].rating = players[q].rating

PJoe5 == [name |-> NameJoe, rating |-> 5, is_gk |-> FALSE]
PJane3 == [name |-> <<"J","a","n","e">>, rating |-> 3, is_gk |-> FALSE]
PFrank2 == [name |-> <<"F","r","a","n","k">>, rating |-> 2, is_gk |-> FALSE]
PGKBob4 == [name |-> NameGKBob, rating |-> 4, is_gk |-> TRUE]
PPoAnn5 == [name |-> <<"p","o","-","A","n","n">>, rating |-> 5, is_gk |-> TRUE]

\* the parsed roster of "Joe (5), Jane (3), GK-Bob (4), Frank (2)"
ScenarioRoster == <<PJoe5, PJane3, PGKBob4, PFrank2>>

(***************************************************************************)
(* Claims about make_teams (checked under SpecTeams).                      *)
(***************************************************************************)

\* C1: for team_count >= 2 the returned teams hold len(players) members in
\* all, and the multiset of their members (and of their names) is the
\* multiset of the input: no player dropped, none duplicated.
C1_Conservation ==
    (Done /\ num_teams >= 2) =>
        /\ SumSeq(Sizes(teams)) = Len(players)
        /\ BagOf(Flatten(teams)) = BagOf(players)
        /\ BagOf(Names(Flatten(teams))) = BagOf(Names(players))

\* C1 witness: three teams returned for two players of the same name.
C1_Witness ==
    /\ Done
    /\ num_teams = 3
    /\ players = <<PJane3, PJane3>>
    /\ Flatten(teams) = <<PJane3, PJane3>>

C3_NeverFails ==
    /\ pc # "mt_raised"
    /\ Done => (Len(teams) = num_teams /\ Len(team_info) = num_teams
                /\ Len(team_skills) = num_teams)

\* C3 amended: for every team_count >= 1 and every player list (and for
\* team_count = 0 with the empty list) make_teams raises nothing, its loops
\* stay within their lists, and it returns teams, colour info and totals of
\* length team_count, the colours being palette entries.
C3_NeverFailsFromOneTeam ==
    (num_teams >= 1 \/ players = <<>>) =>
        /\ pc # "mt_raised"
        /\ pc = "mt_gk" => i <= Len(goalkeepers)
        /\ pc = "mt_field" => i <= Len(field_players)
        /\ Done => /\ Len(teams) = num_teams
                   /\ Len(team_info) = num_teams
                   /\ Len(team_skills) = num_teams
                   /\ \A t \in 1..num_teams : team_info[t] \in Range(TEAM_COLORS)

\* C3 witness: three well-formed teams returned for a single player.
C3_Witness ==
    /\ Done
    /\ num_teams = 3
    /\ Len(players) = 1
    /\ Len(teams) = 3 /\ Len(team_info) = 3 /\ Len(team_skills) = 3
    /\ teams[2] = <<>> /\ teams[3] = <<>>

\* C4 as claimed: with team_count >= 2 and all field players of one rating,
\* the largest and smallest totals differ by at most the number of role groups.
C4_SpreadAtMostGroups ==
    (Done /\ num_teams >= 2 /\ FieldRatingsEqual) => Spread <= RoleGroups * 1

\* C4 amended: with team_count >= 2 and all field players of one rating, the
\* largest and smallest totals differ by at most 5 (the highest rating) times
\* the number of role groups present: at most 10 with both groups.
C4_SpreadAtMostFivePerGroup ==
    (Done /\ num_teams >= 2 /\ FieldRatingsEqual) => Spread <= RoleGroups * 5

\* C4 witness: one goalkeeper of rating 5 and one field player of rating 5
\* on two teams: totals 10 and 0.
C4_Witness ==
    /\ Done
    /\ num_teams = 2
    /\ FieldRatingsEqual
    /\ RoleGroups = 2
    /\ team_skills = <<10, 0>>

\* C8: after every assignment and in the result, team_skills[t] is the sum of
\* the ratings of the members of teams[t]; the result's totals add up to the
\* sum of the input ratings.
C8_SkillsTrackMembership ==
    /\ pc \in {"mt_gk", "mt_field", "mt_done"} =>
          /\ DOMAIN team_skills = DOMAIN teams
          /\ \A t \in DOMAIN teams : team_skills[t] = SumSeq(Ratings(teams[t]))
    /\ Done => SumSeq(team_skills) = SumSeq(Ratings(players))

\* C8 witness: in the field-player loop, a team holding a goalkeeper and two
\* field players has their three ratings as total.
C8_Witness ==
    /\ pc = "mt_field"
    /\ num_teams = 1
    /\ i = 2
    /\ Len(goalkeepers) = 1
    /\ team_skills[1] = goalkeepers[1].rating + field_players[1].rating + field_players[2].rating

====
